---- MODULE Spec2Model ----
(***************************************************************************)
(* Model of the typing-examples snippets:                                  *)
(*   - typing_examples/type_narrowing_generic_result.py: the Ok / Err      *)
(*     dataclasses, interface() and the module-level narrowing branch;     *)
(*   - circular_imports/file_a.py, file_b.py: the classmethod factories    *)
(*     A.from_b and B.from_a.                                              *)
(* Python objects live in a heap (a sequence of records, the index being   *)
(* the object's identity); values are None, ints or references.            *)
(***************************************************************************)
EXTENDS Integers, Sequences, FiniteSets, TLC

\* ---- bounds of the model ----
MaxCalls == 4
Span == 2

\* ---- program constants ----
Threshold == 10
ModuleArg == 12

\* ---- Python values ----
None == [t |-> "None"]
IntVal(v) == [t |-> "int", v |-> v]
Ref(i) == [t |-> "ref", id |-> i]

IsRef(x) == x.t = "ref"

Values == (0 - Span) .. (Threshold + Span)

VARIABLES heap, pc, result, read, calls
vars == <<heap, pc, result, read, calls>>

\* ---- type_narrowing_generic_result.py ----

\* ValueError(): a new exception object with no arguments.
ValueError(h) ==
    [heap |-> Append(h, [cls |-> "ValueError", args |-> <<>>]), ret |-> Ref(Len(h) + 1)]

Ok_wrong_flag(response, error, is_success, h) ==
    [heap |-> Append(h, [cls |-> "Ok", response |-> response, error |-> error,
                         is_success |-> ~is_success]),
     ret |-> Ref(Len(h) + 1)]

\* Ok.__init__ as generated by @dataclass: fields in declaration order.
Ok(response, error, is_success, h) ==
    [heap |-> Append(h, [cls |-> "Ok", response |-> response, error |-> error,
                         is_success |-> is_success]),
     ret |-> Ref(Len(h) + 1)]

\* Err.__init__ as generated by @dataclass.
Err(error, response, is_success, h) ==
    [heap |-> Append(h, [cls |-> "Err", error |-> error, response |-> response,
                         is_success |-> is_success]),
     ret |-> Ref(Len(h) + 1)]

\* Mutants of interface (plausible slips in line 28).
interface_gt11(value, h) ==
    IF value > Threshold + 1
    THEN LET o == Ok(IntVal(value), None, TRUE, h)
         IN  [heap |-> o.heap, ret |-> o.ret, exc |-> None]
    ELSE LET e == ValueError(h)
             r == Err(e.ret, None, FALSE, e.heap)
         IN  [heap |-> r.heap, ret |-> r.ret, exc |-> None]

interface_ge(value, h) ==
    IF value >= Threshold
    THEN LET o == Ok(IntVal(value), None, TRUE, h)
         IN  [heap |-> o.heap, ret |-> o.ret, exc |-> None]
    ELSE LET e == ValueError(h)
             r == Err(e.ret, None, FALSE, e.heap)
         IN  [heap |-> r.heap, ret |-> r.ret, exc |-> None]

interface_raises(value, h) ==
    IF value > Threshold
    THEN LET o == Ok(IntVal(value), None, TRUE, h)
         IN  [heap |-> o.heap, ret |-> o.ret, exc |-> None]
    ELSE LET e == ValueError(h)
         IN  [heap |-> e.heap, ret |-> None, exc |-> e.ret]

interface_clobbers(value, h) ==
    IF value > Threshold
    THEN LET o == Ok(IntVal(value), None, TRUE, h)
         IN  [heap |-> o.heap, ret |-> o.ret, exc |-> None]
    ELSE LET e == ValueError(h)
             r == Err(e.ret, None, FALSE, e.heap)
         IN  [heap |-> IF Len(h) > 0 /\ h[1].cls = "Ok"
                       THEN [r.heap EXCEPT ![1].response = IntVal(value)]
                       ELSE r.heap,
              ret |-> r.ret, exc |-> None]

interface_stateful(value, h) ==
    IF value > Threshold \/ Len(h) > 3
    THEN LET o == Ok(IntVal(value), None, TRUE, h)
         IN  [heap |-> o.heap, ret |-> o.ret, exc |-> None]
    ELSE LET e == ValueError(h)
             r == Err(e.ret, None, FALSE, e.heap)
         IN  [heap |-> r.heap, ret |-> r.ret, exc |-> None]

\* interface(value): Ok(response=value) if value > 10 else Err(error=ValueError()).
\* The omitted keyword arguments take the dataclass defaults.  exc is the
\* exception propagating out of the call (None: the call returned).
interface(value, h) ==
    IF value > Threshold
    THEN LET o == Ok(IntVal(value), None, TRUE, h)
         IN  [heap |-> o.heap, ret |-> o.ret, exc |-> None]
    ELSE LET e == ValueError(h)
             r == Err(e.ret, None, FALSE, e.heap)
         IN  [heap |-> r.heap, ret |-> r.ret, exc |-> None]

CallRec(fn, arg, r) == [fn |-> fn, arg |-> arg, ret |-> r.ret, exc |-> r.exc]

\* Module level, line 31: result = interface(12).
ModuleAssign ==
    /\ pc = "assign"
    /\ LET r == interface(ModuleArg, heap)
       IN  /\ heap' = r.heap
           /\ calls' = Append(calls, CallRec("interface", IntVal(ModuleArg), r))
           /\ IF r.exc = None
              THEN result' = r.ret /\ pc' = "test"
              ELSE result' = result /\ pc' = "aborted"
    /\ UNCHANGED read

ModuleNarrow_consumes ==
    /\ pc = "test"
    /\ IsRef(result)
    /\ IF heap[result.id].is_success = TRUE
       THEN /\ read' = heap[result.id].response
            /\ heap' = [heap EXCEPT ![result.id].response = None]
       ELSE /\ read' = heap[result.id].error
            /\ heap' = [heap EXCEPT ![result.id].error = None]
    /\ pc' = "done"
    /\ UNCHANGED <<result, calls>>

\* Module level, lines 33-38: the narrowing branch; each arm is an
\* expression statement that only reads one attribute of result.
ModuleNarrow ==
    /\ pc = "test"
    /\ IsRef(result)
    /\ IF heap[result.id].is_success = TRUE
       THEN read' = heap[result.id].response
       ELSE read' = heap[result.id].error
    /\ pc' = "done"
    /\ UNCHANGED <<heap, result, calls>>

\* A caller of the imported module calls interface(v).
CallInterface(v) ==
    /\ pc = "done"
    /\ Len(calls) < MaxCalls
    /\ LET r == interface(v, heap)
       IN  /\ heap' = r.heap
           /\ calls' = Append(calls, CallRec("interface", IntVal(v), r))
    /\ UNCHANGED <<pc, result, read>>

\* ---- circular_imports/file_a.py, file_b.py ----

from_b_returns_arg(cls, b, h) ==
    [heap |-> h, ret |-> b, exc |-> None]

from_b_validates(cls, b, h) ==
    IF IsRef(b) /\ h[b.id].cls = "B"
    THEN [heap |-> Append(h, [cls |-> cls]), ret |-> Ref(Len(h) + 1), exc |-> None]
    ELSE [heap |-> Append(h, [cls |-> "TypeError", args |-> <<>>]), ret |-> None,
          exc |-> Ref(Len(h) + 1)]

from_b_singleton(cls, b, h) ==
    IF \E i \in 1..Len(h) : h[i].cls = cls
    THEN [heap |-> h, ret |-> Ref(CHOOSE i \in 1..Len(h) : h[i].cls = cls), exc |-> None]
    ELSE [heap |-> Append(h, [cls |-> cls]), ret |-> Ref(Len(h) + 1), exc |-> None]

\* A.from_b(b): return cls(); b is not used.
from_b(cls, b, h) ==
    [heap |-> Append(h, [cls |-> cls]), ret |-> Ref(Len(h) + 1), exc |-> None]

\* B.from_a(a): return cls(); a is not used.
from_a(cls, a, h) ==
    [heap |-> Append(h, [cls |-> cls]), ret |-> Ref(Len(h) + 1), exc |-> None]

\* Arguments a caller can pass: the annotation is not evaluated at run time,
\* so any live object, or None, is accepted.
Args == {None} \cup {Ref(i) : i \in 1..Len(heap)}

CallFromB(b) ==
    /\ Len(calls) < MaxCalls
    /\ LET r == from_b("A", b, heap)
       IN  /\ heap' = r.heap
           /\ calls' = Append(calls, CallRec("from_b", b, r))
    /\ UNCHANGED <<pc, result, read>>

CallFromA(a) ==
    /\ Len(calls) < MaxCalls
    /\ LET r == from_a("B", a, heap)
       IN  /\ heap' = r.heap
           /\ calls' = Append(calls, CallRec("from_a", a, r))
    /\ UNCHANGED <<pc, result, read>>

\* ---- specification ----

Unbound == [t |-> "unbound"]

Init ==
    /\ heap = <<>>
    /\ pc = "assign"
    /\ result = Unbound
    /\ read = Unbound
    /\ calls = <<>>

Next ==
    \/ ModuleAssign
    \/ ModuleNarrow
    \/ \E v \in Values : CallInterface(v)
    \/ \E b \in Args : CallFromB(b)
    \/ \E a \in Args : CallFromA(a)

Spec == Init /\ [][Next]_vars

\* ---- properties ----

CallIds == 1..Len(calls)
InterfaceCalls == {k \in CallIds : calls[k].fn = "interface"}
FactoryCalls == {k \in CallIds : calls[k].fn \in {"from_b", "from_a"}}
Variants == {i \in 1..Len(heap) : heap[i].cls \in {"Ok", "Err"}}
OwnClass(fn) == IF fn = "from_b" THEN "A" ELSE "B"
OppositeClass(fn) == IF fn = "from_b" THEN "B" ELSE "A"
ReturnedObj(k) == heap[calls[k].ret.id]
IsNewCall(k) == k = Len(calls) + 1 /\ Len(calls') = k

\* C1: for every integer v > 10 (v = 11 included) interface(v) returns an Ok
\* whose response is v, whose error is None and whose is_success is True.
C1_OkAboveThreshold ==
    \A k \in InterfaceCalls :
        calls[k].arg.v > Threshold =>
            /\ calls[k].exc = None
            /\ IsRef(calls[k].ret)
            /\ ReturnedObj(k).cls = "Ok"
            /\ ReturnedObj(k).response = calls[k].arg
            /\ ReturnedObj(k).error = None
            /\ ReturnedObj(k).is_success = TRUE

C1_Witness ==
    /\ \E k \in InterfaceCalls :
          calls[k].arg.v = Threshold + 1 /\ IsRef(calls[k].ret) /\ ReturnedObj(k).cls = "Ok"
    /\ \E k \in InterfaceCalls : k > 1 /\ calls[k].arg.v > Threshold + 1

\* C2: for every integer v <= 10 (10, zero and negative values included)
\* interface(v) returns an Err whose error is present, whose response is
\* None and whose is_success is False.
C2_ErrAtOrBelowThreshold ==
    \A k \in InterfaceCalls :
        calls[k].arg.v <= Threshold =>
            /\ calls[k].exc = None
            /\ IsRef(calls[k].ret)
            /\ ReturnedObj(k).cls = "Err"
            /\ ReturnedObj(k).error # None
            /\ ReturnedObj(k).response = None
            /\ ReturnedObj(k).is_success = FALSE

C2_Witness ==
    /\ \E k \in InterfaceCalls :
          calls[k].arg.v = Threshold /\ IsRef(calls[k].ret) /\ ReturnedObj(k).cls = "Err"
    /\ \E k \in InterfaceCalls : calls[k].arg.v = 0
    /\ \E k \in InterfaceCalls : calls[k].arg.v < 0

C5_FactoryReturnsOwnType ==
    \A k \in FactoryCalls :
        (IsRef(calls[k].arg) /\ heap[calls[k].arg.id].cls = OppositeClass(calls[k].fn)) =>
            /\ calls[k].ret # None
            /\ IsRef(calls[k].ret)
            /\ ReturnedObj(k).cls = OwnClass(calls[k].fn)

C5_Witness ==
    /\ \E k \in FactoryCalls :
          calls[k].fn = "from_b" /\ IsRef(calls[k].arg) /\ heap[calls[k].arg.id].cls = "B"
    /\ \E k \in FactoryCalls :
          calls[k].fn = "from_a" /\ IsRef(calls[k].arg) /\ heap[calls[k].arg.id].cls = "A"

\* C6: interface never raises; for v <= 10 the failure is only the returned
\* Err, which wraps a ValueError built with no arguments, and neither the
\* call nor the module's branch raises it.
C6_NeverRaises ==
    /\ pc # "aborted"
    /\ \A k \in InterfaceCalls :
          /\ calls[k].exc = None
          /\ calls[k].arg.v <= Threshold =>
                /\ IsRef(calls[k].ret)
                /\ IsRef(ReturnedObj(k).error)
                /\ heap[ReturnedObj(k).error.id] = [cls |-> "ValueError", args |-> <<>>]

C6_Witness ==
    /\ pc = "done"
    /\ \E k \in InterfaceCalls : calls[k].arg.v <= Threshold /\ calls[k].exc = None

\* C7: a call of interface changes nothing that existed before the call:
\* every object already on the heap (every earlier Ok / Err among them) is
\* unchanged, and so is the module-level variable result.
C7_InterfaceNoSideEffects ==
    [][\A k \in CallIds \cup {Len(calls) + 1} :
          (IsNewCall(k) /\ calls'[k].fn = "interface") =>
              /\ Len(heap') >= Len(heap)
              /\ SubSeq(heap', 1, Len(heap)) = heap
              /\ pc = "done" => (result' = result /\ read' = read /\ pc' = pc)]_vars

C7_Witness ==
    /\ pc = "done"
    /\ \E j, k \in InterfaceCalls :
          /\ 1 < j /\ j < k
          /\ calls[j].arg.v > Threshold
          /\ calls[k].arg.v <= Threshold

\* C8: a factory neither reads nor modifies its argument: whatever is
\* passed (an instance of the opposite type, any other object, None), the
\* call does not raise, leaves every existing object unchanged and adds
\* exactly one default-constructed instance of its own class.
C8_FactoryIgnoresArgument ==
    [][\A k \in CallIds \cup {Len(calls) + 1} :
          (IsNewCall(k) /\ calls'[k].fn \in {"from_b", "from_a"}) =>
              /\ calls'[k].exc = None
              /\ heap' = Append(heap, [cls |-> OwnClass(calls'[k].fn)])
              /\ calls'[k].ret = Ref(Len(heap) + 1)]_vars

C8_Witness ==
    /\ \E k \in FactoryCalls : calls[k].fn = "from_b" /\ calls[k].arg = None
    /\ \E k \in FactoryCalls :
          calls[k].fn = "from_b" /\ IsRef(calls[k].arg) /\ heap[calls[k].arg.id].cls = "B"
    /\ \E k \in FactoryCalls :
          calls[k].fn = "from_a" /\ IsRef(calls[k].arg) /\ heap[calls[k].arg.id].cls # "A"

\* C9: the object a factory returns is new: it is not the argument, not the
\* object returned by or passed to any earlier call, and not result.
C9_FactoryReturnsFresh ==
    \A k \in FactoryCalls :
        /\ IsRef(calls[k].ret)
        /\ calls[k].ret # calls[k].arg
        /\ calls[k].ret # result
        /\ \A j \in CallIds : j < k => (calls[j].ret # calls[k].ret /\ calls[j].arg # calls[k].ret)

C9_Witness ==
    \E i, j, k \in FactoryCalls :
        /\ i < j /\ j < k
        /\ calls[i].fn = "from_b" /\ calls[j].fn = "from_b" /\ calls[k].fn = "from_a"
        /\ calls[j].arg = calls[i].ret

\* C10: interface always returns exactly one of the two variants, chosen
\* only by whether v > 10; two calls with the same v return the same
\* variant with equal response and is_success, the Err payloads being
\* distinct ValueError objects of the same kind.
C10_InterfaceDeterministic ==
    /\ \A k \in InterfaceCalls : IsRef(calls[k].ret) /\ ReturnedObj(k).cls \in {"Ok", "Err"}
    /\ \A j, k \in InterfaceCalls :
          ((calls[j].arg.v > Threshold) = (calls[k].arg.v > Threshold)) =>
              ReturnedObj(j).cls = ReturnedObj(k).cls
    /\ \A j, k \in InterfaceCalls :
          (j # k /\ calls[j].arg = calls[k].arg) =>
              /\ calls[j].ret # calls[k].ret
              /\ ReturnedObj(j).cls = ReturnedObj(k).cls
              /\ ReturnedObj(j).response = ReturnedObj(k).response
              /\ ReturnedObj(j).is_success = ReturnedObj(k).is_success
              /\ ReturnedObj(j).cls = "Err" =>
                    /\ ReturnedObj(j).error # ReturnedObj(k).error
                    /\ heap[ReturnedObj(j).error.id] = heap[ReturnedObj(k).error.id]

C10_Witness ==
    /\ \E j, k \in InterfaceCalls :
          j # k /\ calls[j].arg = calls[k].arg /\ calls[j].arg.v <= Threshold
    /\ \E j, k \in InterfaceCalls :
          j # k /\ calls[j].arg = calls[k].arg /\ calls[j].arg.v > Threshold
====
